---- MODULE Spec2Model ----
(***************************************************************************)
(* Model of the 1:1 chat backend (src/main.py, src/schemas.py).            *)
(*                                                                         *)
(* The three MongoDB collections are sequences of documents in insertion   *)
(* (natural) order.  An ObjectId is a natural number; its external form is *)
(* the 24-digit lowercase hexadecimal string produced by str(ObjectId).    *)
(* The store assigns ObjectIds that no other document has and that grow    *)
(* within a collection in insertion order.                                 *)
(* Strings are TLA+ strings; a value that may be absent (an optional       *)
(* query parameter, a nullable field) is a sequence of length 0 or 1; a    *)
(* field a document may lack is a key its record may lack.  A datetime is  *)
(* a number of seconds.                                                    *)
(***************************************************************************)
EXTENDS Integers, Sequences, FiniteSets, TLC

VARIABLES chatuser, conversation, message, utcnow, req, resp, first_started,
          inflight, pager

vars == <<chatuser, conversation, message, utcnow, req, resp, first_started,
          inflight, pager>>

store == <<chatuser, conversation, message>>

(***************************************************************************)
(* Bounds of the exploration.                                              *)
(***************************************************************************)
MaxUsers == 1
MaxConvs == 2
MaxMsgs == 2
MaxLimit == 2
MaxPagedMsgs == 3

(***************************************************************************)
(* Program constants.                                                      *)
(***************************************************************************)
DefaultLimit == 50
UsernameMinLength == 2
UsernameMaxLength == 24
TextMinLength == 1
TextMaxLength == 4000
DefaultAvatarColor == "#6366F1"
ObjectIdHexLength == 24
FirstOid == 10

Range(f) == {f[i] : i \in DOMAIN f}

(***************************************************************************)
(* Strings.                                                                *)
(***************************************************************************)
RECURSIVE Rep(_, _)
Rep(s, n) ==
    IF n = 0 THEN ""
    ELSE IF n % 2 = 1 THEN s \o Rep(s, n - 1)
    ELSE LET h == Rep(s, n \div 2) IN h \o h

CharAt(s, i) == SubSeq(s, i, i)

LowerHexDigits == "0123456789abcdef"
UpperHexDigits == "0123456789ABCDEF"

\* the value of each hexadecimal character
HexDigitValues ==
    [c \in {CharAt(LowerHexDigits, i) : i \in 1..16}
             \cup {CharAt(UpperHexDigits, i) : i \in 1..16} |->
        IF \E i \in 1..16 : CharAt(LowerHexDigits, i) = c
        THEN (CHOOSE i \in 1..16 : CharAt(LowerHexDigits, i) = c) - 1
        ELSE (CHOOSE i \in 1..16 : CharAt(UpperHexDigits, i) = c) - 1]

\* value of one hexadecimal character, -1 when the character is not one
DigitValue(c) == IF c \in DOMAIN HexDigitValues THEN HexDigitValues[c] ELSE -1

RECURSIVE HexValue(_)
HexValue(s) ==
    IF s = "" THEN 0
    ELSE HexValue(SubSeq(s, 1, Len(s) - 1)) * 16 + DigitValue(CharAt(s, Len(s)))

RECURSIVE HexString(_, _)
HexString(n, width) ==
    IF width = 0 THEN ""
    ELSE HexString(n \div 16, width - 1) \o CharAt(LowerHexDigits, (n % 16) + 1)

RECURSIVE UpperCase(_)
UpperCase(s) ==
    IF s = "" THEN ""
    ELSE LET c == CharAt(s, 1)
             v == DigitValue(c)
         IN (IF v >= 0 THEN CharAt(UpperHexDigits, v + 1) ELSE c)
                \o UpperCase(SubSeq(s, 2, Len(s)))

(***************************************************************************)
(* Identifier codec (bson.objectid.ObjectId as main.py uses it).           *)
(***************************************************************************)
\* bson.ObjectId.is_valid on a str: 24 hexadecimal characters, either case
ObjectIdIsValid(s) ==
    /\ Len(s) = ObjectIdHexLength
    /\ \A i \in 1..Len(s) : DigitValue(CharAt(s, i)) >= 0

\* ObjectId(s) computed: <<oid>> when s is well formed, <<>> when InvalidId is raised
ObjectIdOf(s) == IF ObjectIdIsValid(s) THEN <<HexValue(s)>> ELSE <<>>

\* str(oid) computed
StrOf(oid) == HexString(oid, ObjectIdHexLength)

NotAnId == "not-a-real-id"

\* the conversions of the identifiers the model uses, computed once
OidText == [n \in 0..(FirstOid + 20) |-> StrOf(n)]

OidUpperText == [n \in DOMAIN OidText |-> UpperCase(OidText[n])]

ObjectIdParsed ==
    [s \in Range(OidText) \cup Range(OidUpperText) \cup {NotAnId, ""} |-> ObjectIdOf(s)]

\* ObjectId(s)
ObjectId(s) == IF s \in DOMAIN ObjectIdParsed THEN ObjectIdParsed[s] ELSE ObjectIdOf(s)

\* str(oid)
str(oid) == IF oid \in DOMAIN OidText THEN OidText[oid] ELSE StrOf(oid)

\* str(oid).upper()
upper_str(oid) ==
    IF oid \in DOMAIN OidUpperText THEN OidUpperText[oid] ELSE UpperCase(StrOf(oid))

\* datetime.isoformat() of second t of the model's hour
isoformat(t) ==
    "2024-01-01T00:" \o CharAt(LowerHexDigits, ((t \div 600) % 6) + 1)
                     \o CharAt(LowerHexDigits, ((t \div 60) % 10) + 1)
                     \o ":"
                     \o CharAt(LowerHexDigits, ((t \div 10) % 6) + 1)
                     \o CharAt(LowerHexDigits, (t % 10) + 1)

(***************************************************************************)
(* Generic helpers on sequences of documents.                              *)
(***************************************************************************)
\* doc.get(k): <<value>> when the document has the key, <<>> when it has not
Field(doc, k) == IF k \in DOMAIN doc THEN <<doc[k]>> ELSE <<>>

\* the array returned as the cursor gave it
reversed_left_out(arr) == arr

\* list(reversed(arr))
reversed(arr) == [i \in 1..Len(arr) |-> arr[Len(arr) + 1 - i]]

\* every arrangement of the documents of coll
Arrangements(coll) ==
    {[i \in 1..Len(coll) |-> coll[p[i]]] :
        p \in {q \in [1..Len(coll) -> 1..Len(coll)] :
                 \A i, j \in 1..Len(coll) : i # j => q[i] # q[j]}}

(***************************************************************************)
(* Document store adapter (database.py: create_document, get_documents;   *)
(* pymongo find_one / find / sort / limit / update_one).                   *)
(***************************************************************************)
\* the collections of the database
CollectionIndex == [chatuser |-> 0, conversation |-> 1, message |-> 2]

\* the ObjectId the next document of a collection gets: greater than those of
\* the documents the collection holds, and no id of another collection
next_oid(name, coll) ==
    FirstOid + Cardinality(DOMAIN CollectionIndex) * Len(coll) + CollectionIndex[name]

\* create_document(collection_name, data): data stored under a fresh ObjectId
create_document(name, coll, data) ==
    Append(coll, [k \in DOMAIN data \cup {"_id"} |->
                     IF k = "_id" THEN next_oid(name, coll) ELSE data[k]])

\* the value create_document returns: the id of the document it inserted
inserted_id(coll) == str(coll[Len(coll)]._id)

\* get_documents(collection): every document, in an order the store chooses
get_documents(coll) == Arrangements(coll)

\* find_one({"_id": oid}): <<doc>> or <<>> (None)
find_one_by_id(coll, oid) ==
    LET hits == SelectSeq(coll, LAMBDA d : d._id = oid)
    IN IF hits = <<>> THEN <<>> ELSE <<Head(hits)>>

\* the array compared as a whole, {"participant_ids": [a, b]}
MatchesAll_exact(doc, a, b) == doc.participant_ids = <<a, b>>

\* the query {"participant_ids": {"$all": [a, b]}}
MatchesAll(doc, a, b) == {a, b} \subseteq Range(doc.participant_ids)

\* the query {"participant_ids": user_id}: an array field matches a scalar
\* when one of its elements equals it
MatchesParticipant(doc, user_id) == user_id \in Range(doc.participant_ids)

\* BSON sort order of two updated_at values: a missing field sorts as null,
\* null sorts before every date, dates sort by time
UpdatedAtLeq(c, d) ==
    LET x == Field(c, "updated_at")
        y == Field(d, "updated_at")
    IN \/ x = <<>>
       \/ x # <<>> /\ y # <<>> /\ x[1] <= y[1]

\* .sort("updated_at", 1)
sort_updated_at_asc(docs) ==
    {s \in Arrangements(docs) :
        \A i, j \in 1..Len(s) : i < j => UpdatedAtLeq(s[i], s[j])}

\* .sort("updated_at", -1): every arrangement in descending order (the order
\* of documents with equal keys is the store's choice)
sort_updated_at_desc(docs) ==
    {s \in Arrangements(docs) :
        \A i, j \in 1..Len(s) : i < j => UpdatedAtLeq(s[j], s[i])}

RECURSIVE sort_id_desc(_)
\* .sort("_id", -1); _id is unique
sort_id_desc(docs) ==
    IF docs = <<>> THEN <<>>
    ELSE LET top == CHOOSE d \in Range(docs) : \A e \in Range(docs) : e._id <= d._id
         IN <<top>> \o sort_id_desc(SelectSeq(docs, LAMBDA d : d._id # top._id))

\* .limit(n): 0 is no limit, a negative n is a limit of -n
limit_docs(docs, n) ==
    LET k == IF n < 0 THEN 0 - n ELSE n
    IN IF k = 0 \/ k >= Len(docs) THEN docs ELSE SubSeq(docs, 1, k)

\* the update with updated_at alone in its $set
update_one_set_updated_at_only(coll, oid, preview, at) ==
    [i \in 1..Len(coll) |->
        IF coll[i]._id = oid
        THEN [k \in DOMAIN coll[i] \cup {"updated_at"} |->
                 IF k = "updated_at" THEN at ELSE coll[i][k]]
        ELSE coll[i]]

\* the update applied to every conversation
update_one_set_all(coll, oid, preview, at) ==
    [i \in 1..Len(coll) |->
        [k \in DOMAIN coll[i] \cup {"last_message_preview", "updated_at"} |->
            IF k = "last_message_preview" THEN <<preview>>
            ELSE IF k = "updated_at" THEN at
            ELSE coll[i][k]]]

\* the update filtered on a field no document has, so that nothing is updated
update_one_set_unmatched(coll, oid, preview, at) == coll

\* update_one({"_id": oid}, {"$set": {last_message_preview, updated_at}})
update_one_set(coll, oid, preview, at) ==
    [i \in 1..Len(coll) |->
        IF coll[i]._id = oid /\ \A j \in 1..(i - 1) : coll[j]._id # oid
        THEN [k \in DOMAIN coll[i] \cup {"last_message_preview", "updated_at"} |->
                 IF k = "last_message_preview" THEN <<preview>>
                 ELSE IF k = "updated_at" THEN at
                 ELSE coll[i][k]]
        ELSE coll[i]]

(***************************************************************************)
(* to_str_id: _id becomes the string id, datetimes become ISO 8601 text.   *)
(***************************************************************************)
to_str_id(doc) ==
    [k \in (DOMAIN doc \ {"_id"}) \cup {"id"} |->
        IF k = "id" THEN str(doc._id)
        ELSE IF k = "updated_at" THEN isoformat(doc[k])
        ELSE doc[k]]

to_str_id_all(docs) == [i \in 1..Len(docs) |-> to_str_id(docs[i])]

(***************************************************************************)
(* Request schemas (pydantic models of main.py).                           *)
(***************************************************************************)
\* class CreateUser: username is required, avatar_color has a default
CreateUser_validate(body) == "username" \in DOMAIN body

\* payload.model_dump() of a CreateUser
CreateUser_model_dump(body) ==
    [username |-> body.username,
     avatar_color |-> IF "avatar_color" \in DOMAIN body
                      THEN body.avatar_color ELSE DefaultAvatarColor]

\* class StartConversation: both fields are required
StartConversation_validate(body) == {"user_a", "user_b"} \subseteq DOMAIN body

\* class SendMessage: the three fields are required
SendMessage_validate(body) ==
    {"conversation_id", "sender_id", "text"} \subseteq DOMAIN body

(***************************************************************************)
(* Responses.                                                              *)
(***************************************************************************)
Ok(content) == [status |-> 200, detail |-> "", body |-> content]

HTTPException(status_code, detail) ==
    [status |-> status_code, detail |-> detail, body |-> <<>>]

\* a request body the schema rejects never reaches the handler
RequestValidationError == HTTPException(422, "validation error")

\* an exception no handler catches
InternalServerError == HTTPException(500, "Internal Server Error")

(***************************************************************************)
(* Initial state: empty collections.                                       *)
(***************************************************************************)
UserIds == {"u1", "u2", "u3"}

\* the sets of users a conversation can be started between
Pairs == {{a, b} : a, b \in UserIds}

\* the requests the host runtime may be processing at the same time
Requests == {"r1", "r2"}

\* a request slot that holds no request
Idle == [pc |-> "idle"]

\* a caller that is not paging through a conversation
NotPaging == [phase |-> "idle"]

Init ==
    /\ chatuser = <<>>
    /\ conversation = <<>>
    /\ message = <<>>
    /\ utcnow = 0
    /\ req = [op |-> "none"]
    /\ resp = Ok(<<>>)
    /\ first_started = [p \in Pairs |-> ""]
    /\ inflight = [r \in Requests |-> Idle]
    /\ pager = NotPaging

(***************************************************************************)
(* POST /users                                                             *)
(***************************************************************************)
create_user_rejected(body) ==
    /\ ~CreateUser_validate(body)
    /\ req' = [op |-> "create_user", body |-> body]
    /\ resp' = RequestValidationError
    /\ UNCHANGED <<chatuser, conversation, message, utcnow,
                   first_started, inflight, pager>>

create_user_handler(body) ==
    /\ CreateUser_validate(body)
    /\ LET data == CreateUser_model_dump(body)
           inserted == create_document("chatuser", chatuser, data)
           user_id == inserted_id(inserted)
           doc == find_one_by_id(inserted, ObjectId(user_id)[1])
       IN /\ chatuser' = inserted
          /\ resp' = Ok(to_str_id(doc[1]))
    /\ req' = [op |-> "create_user", body |-> body]
    /\ UNCHANGED <<conversation, message, utcnow, first_started, inflight, pager>>

(***************************************************************************)
(* GET /users                                                              *)
(***************************************************************************)
list_users ==
    /\ \E docs \in get_documents(chatuser) : resp' = Ok(to_str_id_all(docs))
    /\ req' = [op |-> "list_users"]
    /\ UNCHANGED <<chatuser, conversation, message, utcnow,
                   first_started, inflight, pager>>

(***************************************************************************)
(* POST /conversations                                                     *)
(***************************************************************************)
\* the check left out
IsSelfConversation_never(a, b) == FALSE

\* if a == b
IsSelfConversation(a, b) == a = b

\* the lookup made in a collection of another name, which is empty
find_one_all_elsewhere(coll, a, b) == <<>>

\* db["conversation"].find_one({"participant_ids": {"$all": [a, b]}})
find_one_all(coll, a, b) ==
    LET hits == SelectSeq(coll, LAMBDA d : MatchesAll(d, a, b))
    IN IF hits = <<>> THEN <<>> ELSE <<Head(hits)>>

\* the id the first call for the pair returned, kept for later calls to compare
record_first(a, b, id) ==
    IF first_started[{a, b}] = ""
    THEN [first_started EXCEPT ![{a, b}] = id]
    ELSE first_started

start_conversation_rejected(body) ==
    /\ ~StartConversation_validate(body)
    /\ req' = [op |-> "start_conversation", body |-> body]
    /\ resp' = RequestValidationError
    /\ UNCHANGED <<chatuser, conversation, message, utcnow,
                   first_started, inflight, pager>>

start_conversation_handler(body) ==
    /\ StartConversation_validate(body)
    /\ req' = [op |-> "start_conversation", body |-> body]
    /\ LET a == body.user_a
           b == body.user_b
           existing == find_one_all(conversation, a, b)
       IN IF IsSelfConversation(a, b)
          THEN /\ resp' = HTTPException(400, "Cannot start conversation with self")
               /\ UNCHANGED <<conversation, first_started>>
          ELSE IF existing # <<>>
          THEN /\ resp' = Ok(to_str_id(existing[1]))
               /\ first_started' = record_first(a, b, str(existing[1]._id))
               /\ UNCHANGED conversation
          ELSE LET inserted == create_document("conversation", conversation,
                                   [participant_ids |-> <<a, b>>,
                                    last_message_preview |-> <<>>])
                   conv_id == inserted_id(inserted)
                   doc == find_one_by_id(inserted, ObjectId(conv_id)[1])
               IN /\ conversation' = inserted
                  /\ resp' = Ok(to_str_id(doc[1]))
                  /\ first_started' = record_first(a, b, conv_id)
    /\ UNCHANGED <<chatuser, message, utcnow, inflight, pager>>

(***************************************************************************)
(* GET /conversations/{user_id}                                            *)
(***************************************************************************)
get_conversations_handler(user_id) ==
    /\ \E convs \in sort_updated_at_desc(
               SelectSeq(conversation, LAMBDA d : MatchesParticipant(d, user_id))) :
           resp' = Ok(to_str_id_all(convs))
    /\ req' = [op |-> "get_conversations", user_id |-> user_id]
    /\ UNCHANGED <<chatuser, conversation, message, utcnow,
                   first_started, inflight, pager>>

(***************************************************************************)
(* POST /messages                                                          *)
(***************************************************************************)
\* the membership check left out
IsParticipant_anyone(sender_id, conv) == TRUE

\* the check that the conversation has participants at all
IsParticipant_of_some(sender_id, conv) == Field(conv, "participant_ids") # <<>>

\* payload.sender_id in conv.get("participant_ids", [])
IsParticipant(sender_id, conv) ==
    LET ids == Field(conv, "participant_ids")
    IN ids # <<>> /\ sender_id \in Range(ids[1])

\* the document with the two flags exchanged
new_message_flags_swapped(body) ==
    [conversation_id |-> body.conversation_id,
     sender_id |-> body.sender_id,
     text |-> body.text,
     delivered |-> FALSE,
     read |-> TRUE]

\* the document send_message inserts
new_message(body) ==
    [conversation_id |-> body.conversation_id,
     sender_id |-> body.sender_id,
     text |-> body.text,
     delivered |-> TRUE,
     read |-> FALSE]

send_message_rejected(body) ==
    /\ ~SendMessage_validate(body)
    /\ req' = [op |-> "send_message", body |-> body]
    /\ resp' = RequestValidationError
    /\ UNCHANGED <<chatuser, conversation, message, utcnow,
                   first_started, inflight, pager>>

\* elapsed is the time that passes before datetime.utcnow() is read
send_message_handler(body, elapsed) ==
    /\ SendMessage_validate(body)
    /\ req' = [op |-> "send_message", body |-> body]
    /\ LET parsed == ObjectId(body.conversation_id)
           conv == IF parsed = <<>> THEN <<>>
                   ELSE find_one_by_id(conversation, parsed[1])
       IN IF parsed = <<>>
          THEN \* bson.errors.InvalidId is not caught
               /\ resp' = InternalServerError
               /\ UNCHANGED <<conversation, message, utcnow>>
          ELSE IF conv = <<>>
          THEN /\ resp' = HTTPException(404, "Conversation not found")
               /\ UNCHANGED <<conversation, message, utcnow>>
          ELSE IF ~IsParticipant(body.sender_id, conv[1])
          THEN /\ resp' = HTTPException(403, "Sender not in conversation")
               /\ UNCHANGED <<conversation, message, utcnow>>
          ELSE LET inserted == create_document("message", message, new_message(body))
                   msg_id == inserted_id(inserted)
                   doc == find_one_by_id(inserted, ObjectId(msg_id)[1])
                   now == utcnow + elapsed
               IN /\ message' = inserted
                  /\ utcnow' = now
                  /\ conversation' =
                         update_one_set(conversation, conv[1]._id, body.text, now)
                  /\ resp' = Ok(to_str_id(doc[1]))
    /\ UNCHANGED <<chatuser, first_started, inflight, pager>>

(***************************************************************************)
(* GET /messages/{conversation_id}                                         *)
(***************************************************************************)
\* a cursor that does not decode is taken for the least identifier
before_filter_strict(before) ==
    IF before # <<>> /\ before[1] # ""
    THEN (IF ObjectId(before[1]) # <<>> THEN ObjectId(before[1]) ELSE <<0>>)
    ELSE <<>>

\* the "_id" bound of filt: <<oid>> when before is given and decodes, <<>> when
\* before is None or empty or ObjectId(before) raises (the except: pass)
before_filter(before) ==
    IF before # <<>> /\ before[1] # "" THEN ObjectId(before[1]) ELSE <<>>

\* the filter with $lte in the place of $lt
find_messages_lte(coll, conversation_id, bound) ==
    SelectSeq(coll, LAMBDA m : /\ m.conversation_id = conversation_id
                               /\ (bound = <<>> \/ m._id <= bound[1]))

\* db["message"].find(filt)
find_messages(coll, conversation_id, bound) ==
    SelectSeq(coll, LAMBDA m : /\ m.conversation_id = conversation_id
                               /\ (bound = <<>> \/ m._id < bound[1]))

\* what list_messages returns
list_messages_result(conversation_id, limit, before) ==
    LET msgs == limit_docs(
                    sort_id_desc(
                        find_messages(message, conversation_id, before_filter(before))),
                    limit)
        arr == to_str_id_all(msgs)
    IN reversed(arr)

list_messages_handler(conversation_id, limit, before) ==
    /\ resp' = Ok(list_messages_result(conversation_id, limit, before))
    /\ req' = [op |-> "list_messages", conversation_id |-> conversation_id,
               limit |-> limit, before |-> before]
    /\ UNCHANGED <<chatuser, conversation, message, utcnow,
                   first_started, inflight, pager>>

(***************************************************************************)
(* Requests handled at the same time.  The handlers are plain functions,   *)
(* which the host runs in worker threads; every call of the store is one   *)
(* step, and the steps of two requests interleave.  inflight[r] holds the  *)
(* position and the local variables of the request in slot r.              *)
(***************************************************************************)
\* the slots with the content of slot r replaced
Hold(r, content) == [inflight EXCEPT ![r] = content]

\* a request that has its response
Done(op, body, response) == [pc |-> "done", op |-> op, body |-> body, resp |-> response]

\* start_conversation up to the lookup: a, b, the self check, find_one
start_conversation_lookup(r, body) ==
    /\ inflight[r] = Idle
    /\ StartConversation_validate(body)
    /\ LET a == body.user_a
           b == body.user_b
       IN inflight' = Hold(r,
              IF IsSelfConversation(a, b)
              THEN Done("start_conversation", body,
                        HTTPException(400, "Cannot start conversation with self"))
              ELSE [pc |-> "start_looked_up", op |-> "start_conversation", body |-> body,
                    existing |-> find_one_all(conversation, a, b)])
    /\ UNCHANGED <<chatuser, conversation, message, utcnow, req, resp,
                   first_started, pager>>

\* the insert made only when the store holds no conversation of the pair
insert_conversation_unless_present(coll, a, b) ==
    IF find_one_all(coll, a, b) # <<>> THEN coll
    ELSE create_document("conversation", coll,
             [participant_ids |-> <<a, b>>, last_message_preview |-> <<>>])

\* create_document("conversation", {"participant_ids": [a, b], ...})
insert_conversation(coll, a, b) ==
    create_document("conversation", coll,
        [participant_ids |-> <<a, b>>, last_message_preview |-> <<>>])

\* start_conversation from "if existing" on: the existing conversation is
\* returned, or one is inserted, whatever the store holds by now
start_conversation_insert(r, max_convs) ==
    /\ inflight[r].pc = "start_looked_up"
    /\ LET body == inflight[r].body
           existing == inflight[r].existing
       IN IF existing # <<>>
          THEN /\ inflight' = Hold(r, Done("start_conversation", body,
                                           Ok(to_str_id(existing[1]))))
               /\ UNCHANGED conversation
          ELSE LET inserted == insert_conversation(conversation, body.user_a, body.user_b)
                   conv_id == inserted_id(inserted)
                   doc == find_one_by_id(inserted, ObjectId(conv_id)[1])
               IN /\ Len(inserted) <= max_convs
                  /\ conversation' = inserted
                  /\ inflight' = Hold(r, Done("start_conversation", body,
                                              Ok(to_str_id(doc[1]))))
    /\ UNCHANGED <<chatuser, message, utcnow, req, resp, first_started, pager>>

\* send_message up to the two checks: find_one by id, 404, 403
send_message_lookup(r, body) ==
    /\ inflight[r] = Idle
    /\ SendMessage_validate(body)
    /\ LET parsed == ObjectId(body.conversation_id)
           conv == IF parsed = <<>> THEN <<>>
                   ELSE find_one_by_id(conversation, parsed[1])
       IN inflight' = Hold(r,
              IF parsed = <<>>
              THEN Done("send_message", body, InternalServerError)
              ELSE IF conv = <<>>
              THEN Done("send_message", body, HTTPException(404, "Conversation not found"))
              ELSE IF ~IsParticipant(body.sender_id, conv[1])
              THEN Done("send_message", body,
                        HTTPException(403, "Sender not in conversation"))
              ELSE [pc |-> "send_checked", op |-> "send_message", body |-> body,
                    conv |-> conv[1]])
    /\ UNCHANGED <<chatuser, conversation, message, utcnow, req, resp,
                   first_started, pager>>

\* msg_id = create_document("message", {...})
send_message_insert(r, max_msgs) ==
    /\ inflight[r].pc = "send_checked"
    /\ LET inserted == create_document("message", message, new_message(inflight[r].body))
       IN /\ Len(inserted) <= max_msgs
          /\ message' = inserted
          /\ inflight' = Hold(r, [pc |-> "send_inserted", op |-> "send_message",
                                  body |-> inflight[r].body, conv |-> inflight[r].conv,
                                  msg_id |-> inserted_id(inserted)])
    /\ UNCHANGED <<chatuser, conversation, utcnow, req, resp, first_started, pager>>

\* send_message from update_one on: the preview and the time are written,
\* the message is read back and returned
send_message_update(r, elapsed) ==
    /\ inflight[r].pc = "send_inserted"
    /\ LET body == inflight[r].body
           now == utcnow + elapsed
           doc == find_one_by_id(message, ObjectId(inflight[r].msg_id)[1])
       IN /\ utcnow' = now
          /\ conversation' =
                 update_one_set(conversation, inflight[r].conv._id, body.text, now)
          /\ inflight' = Hold(r, Done("send_message", body, Ok(to_str_id(doc[1]))))
    /\ UNCHANGED <<chatuser, message, req, resp, first_started, pager>>

\* the response of a finished request has left and the slot is free
reply(r) ==
    /\ inflight[r].pc = "done"
    /\ inflight' = Hold(r, Idle)
    /\ UNCHANGED <<chatuser, conversation, message, utcnow, req, resp,
                   first_started, pager>>

\* a new request takes the first free slot
FreeSlot(r) == inflight[r] = Idle /\ (r = "r2" => inflight["r1"] # Idle)

(***************************************************************************)
(* A caller that loads a conversation page by page: GET /messages with no  *)
(* before, then with before set to the id of the first message of the page *)
(* it got last, until a page is empty.  pager holds what the caller keeps: *)
(* the cursor, the ids received (oldest first) and the number of calls;    *)
(* snapshot is the set of ids the conversation held at the first call.     *)
(***************************************************************************)
\* the ids of the documents of a page
PageIds(page) == [i \in 1..Len(page) |-> page[i].id]

\* what the caller keeps after a page
pager_after(conversation_id, limit, page, got, snapshot, calls) ==
    [phase |-> IF page = <<>> THEN "finished" ELSE "paging",
     conversation_id |-> conversation_id,
     limit |-> limit,
     before |-> IF page = <<>> THEN <<>> ELSE <<page[1].id>>,
     got |-> PageIds(page) \o got,
     snapshot |-> snapshot,
     calls |-> calls]

\* the first call: list_messages(conversation_id, limit)
pager_first(conversation_id, limit) ==
    /\ pager = NotPaging
    /\ LET page == list_messages_result(conversation_id, limit, <<>>)
           held == {str(m._id) : m \in {n \in Range(message) :
                                           n.conversation_id = conversation_id}}
       IN /\ resp' = Ok(page)
          /\ pager' = pager_after(conversation_id, limit, page, <<>>, held, 1)
    /\ req' = [op |-> "list_messages", conversation_id |-> conversation_id,
               limit |-> limit, before |-> <<>>]
    /\ UNCHANGED <<chatuser, conversation, message, utcnow, first_started, inflight>>

\* a further call: list_messages(conversation_id, limit, before)
pager_next(max_calls) ==
    /\ pager.phase = "paging"
    /\ pager.calls < max_calls
    /\ LET page == list_messages_result(pager.conversation_id, pager.limit, pager.before)
       IN /\ resp' = Ok(page)
          /\ pager' = pager_after(pager.conversation_id, pager.limit, page,
                                  pager.got, pager.snapshot, pager.calls + 1)
    /\ req' = [op |-> "list_messages", conversation_id |-> pager.conversation_id,
               limit |-> pager.limit, before |-> pager.before]
    /\ UNCHANGED <<chatuser, conversation, message, utcnow, first_started, inflight>>

(***************************************************************************)
(* Inputs of the requests.                                                 *)
(***************************************************************************)
OtherAvatarColor == "#0EA5E9"

LongUsername == Rep("n", UsernameMaxLength + 1)

LongText == Rep("x", TextMaxLength + 1)

Limits == (0..MaxLimit) \cup {DefaultLimit}

\* a body without the required username
NoUsernameBody == [avatar_color |-> OtherAvatarColor]

\* a body without the required user_b
NoUserBBody == [user_a |-> "u1"]

CreateUserBodies(usernames) ==
    {[username |-> u] : u \in usernames}
        \cup {[username |-> "al", avatar_color |-> OtherAvatarColor], NoUsernameBody}

StartConversationBodies(pairs) ==
    {[user_a |-> p[1], user_b |-> p[2]] : p \in pairs} \cup {NoUserBBody}

\* the ids of the stored conversations as a client holds them
ConversationIdStrings == {str(c._id) : c \in Range(conversation)}

\* identifier strings a client may send: the ids of the conversations in
\* small and in capital letters, an id no document has, and a malformed string
IdStrings ==
    ConversationIdStrings
        \cup {upper_str(c._id) : c \in Range(conversation)}
        \cup {str(next_oid("conversation", conversation)), NotAnId}

\* bodies of POST /messages, one of them without the required text
SendMessageBodies(ids, senders, texts) ==
    {[conversation_id |-> c, sender_id |-> u, text |-> t] :
        c \in ids, u \in senders, t \in texts}
        \cup {[conversation_id |-> NotAnId, sender_id |-> "u1"]}

\* before query parameters: absent, empty, malformed, the id of a message in
\* small or in capital letters, the id of a conversation, an id no document has
BeforeCursors ==
    {<<>>, <<"">>, <<NotAnId>>}
        \cup {<<str(m._id)>> : m \in Range(message)}
        \cup {<<upper_str(m._id)>> : m \in Range(message)}
        \cup {<<str(c._id)>> : c \in Range(conversation)}
        \cup {<<str(next_oid("message", message))>>}

(***************************************************************************)
(* The six operations over given inputs, the collections bounded.          *)
(***************************************************************************)
create_user(bodies, max_users) ==
    \E body \in bodies :
        \/ create_user_rejected(body)
        \/ create_user_handler(body) /\ Len(chatuser') <= max_users

start_conversation(bodies, max_convs) ==
    \E body \in bodies :
        \/ start_conversation_rejected(body)
        \/ start_conversation_handler(body) /\ Len(conversation') <= max_convs

get_conversations(user_ids) ==
    \E user_id \in user_ids : get_conversations_handler(user_id)

send_message(bodies, delays, max_msgs) ==
    \E body \in bodies :
        \/ send_message_rejected(body)
        \/ \E elapsed \in delays :
               send_message_handler(body, elapsed) /\ Len(message') <= max_msgs

list_messages(conversation_ids, limits, cursors) ==
    \E conversation_id \in conversation_ids, limit \in limits, before \in cursors :
        list_messages_handler(conversation_id, limit, before)

(***************************************************************************)
(* Requests are handled one at a time.  Spec explores the conversations    *)
(* three users can start, in every order of the two users.                 *)
(***************************************************************************)
Next ==
    \/ create_user({[username |-> "al"], NoUsernameBody}, MaxUsers)
    \/ list_users
    \/ start_conversation(StartConversationBodies(UserIds \X UserIds), MaxConvs)
    \/ get_conversations({"u1"})
    \/ send_message(SendMessageBodies(ConversationIdStrings \cup {NotAnId}, {"u1"}, {"hi"}),
                    {1}, MaxMsgs)
    \/ list_messages(ConversationIdStrings, {DefaultLimit}, {<<>>})

Spec == Init /\ [][Next]_vars

(***************************************************************************)
(* SpecInbox explores GET /conversations/{user_id}: conversations with and *)
(* without messages, updated in the same second or in different ones.      *)
(***************************************************************************)
NextInbox ==
    \/ create_user({[username |-> "al"], NoUsernameBody}, MaxUsers)
    \/ list_users
    \/ start_conversation(
           StartConversationBodies(
               {<<"u1", "u2">>, <<"u3", "u1">>, <<"u2", "u3">>, <<"u2", "u2">>}),
           MaxConvs)
    \/ get_conversations(UserIds)
    \/ send_message(SendMessageBodies(ConversationIdStrings, {"u1"}, {"hi"}),
                    {0, 1}, MaxMsgs)
    \/ list_messages(ConversationIdStrings, {DefaultLimit}, {<<>>})

SpecInbox == Init /\ [][NextInbox]_vars

(***************************************************************************)
(* SpecSend explores POST /messages: identifiers in every form, a          *)
(* participant and an outsider as senders, two texts.                      *)
(***************************************************************************)
NextSend ==
    \/ create_user({[username |-> "al"], NoUsernameBody}, MaxUsers)
    \/ list_users
    \/ start_conversation(
           StartConversationBodies({<<"u1", "u2">>, <<"u2", "u3">>, <<"u1", "u1">>}),
           MaxConvs)
    \/ get_conversations({"u1"})
    \/ send_message(SendMessageBodies(IdStrings, {"u1"}, {"hi", "yo"})
                        \cup SendMessageBodies(IdStrings, {"u3"}, {"hi"}),
                    {1}, MaxMsgs)
    \/ list_messages(ConversationIdStrings, {DefaultLimit}, {<<>>})

SpecSend == Init /\ [][NextSend]_vars

(***************************************************************************)
(* SpecLengths explores usernames and texts of every length class.         *)
(***************************************************************************)
NextLengths ==
    \/ create_user(CreateUserBodies({"a", "al", LongUsername}), MaxUsers)
    \/ list_users
    \/ start_conversation(StartConversationBodies({<<"u1", "u2">>, <<"u1", "u1">>}), MaxConvs)
    \/ get_conversations({"u1"})
    \/ send_message(
           SendMessageBodies(ConversationIdStrings \cup {NotAnId}, {"u1"},
                             {"", "hi", LongText}),
           {1}, MaxMsgs)
    \/ list_messages(ConversationIdStrings, {DefaultLimit}, {<<>>})

SpecLengths == Init /\ [][NextLengths]_vars

(***************************************************************************)
(* SpecPaging explores GET /messages over two conversations of one sender. *)
(***************************************************************************)
NextPaging ==
    \/ create_user({[username |-> "al"], NoUsernameBody}, MaxUsers)
    \/ list_users
    \/ start_conversation(
           StartConversationBodies({<<"u1", "u2">>, <<"u1", "u3">>, <<"u1", "u1">>}),
           MaxConvs)
    \/ get_conversations({"u1"})
    \/ send_message(SendMessageBodies(ConversationIdStrings, {"u1"}, {"hi"}),
                    {1}, MaxPagedMsgs)
    \/ list_messages(ConversationIdStrings, Limits, BeforeCursors)

SpecPaging == Init /\ [][NextPaging]_vars

(***************************************************************************)
(* SpecPager explores a caller paging through a conversation while         *)
(* messages are sent to it and to another conversation.  The caller keeps  *)
(* calling until it gets an empty page; the number of its calls is capped  *)
(* above what the longest conversation needs.                              *)
(***************************************************************************)
NextPager ==
    \/ start_conversation(
           StartConversationBodies({<<"u1", "u2">>, <<"u1", "u3">>, <<"u1", "u1">>}),
           MaxConvs)
    \/ send_message(SendMessageBodies(ConversationIdStrings, {"u1"}, {"hi"}),
                    {1}, MaxPagedMsgs)
    \/ \E conversation_id \in ConversationIdStrings, limit \in Limits \ {0} :
           pager_first(conversation_id, limit)
    \/ pager_next(MaxPagedMsgs + 2)

SpecPager == Init /\ [][NextPager]_vars /\ WF_vars(pager_next(MaxPagedMsgs + 2))

(***************************************************************************)
(* SpecStartRace explores two POST /conversations handled at the same      *)
(* time, the lookup and the insert of each a step of its own.              *)
(***************************************************************************)
NextStartRace ==
    \/ \E r \in Requests, body \in StartConversationBodies(UserIds \X UserIds) :
           FreeSlot(r) /\ start_conversation_lookup(r, body)
    \/ \E r \in Requests : start_conversation_insert(r, MaxConvs)
    \/ \E r \in Requests : reply(r)

SpecStartRace == Init /\ [][NextStartRace]_vars

(***************************************************************************)
(* SpecRace explores two POST /messages handled at the same time, the      *)
(* lookup, the insert and the update of each a step of its own.            *)
(***************************************************************************)
NextRace ==
    \/ start_conversation(
           StartConversationBodies({<<"u1", "u2">>, <<"u1", "u1">>}),
           MaxConvs)
    \/ \E r \in Requests,
          body \in SendMessageBodies(ConversationIdStrings, {"u1"}, {"hi", "yo"})
                      \cup SendMessageBodies({upper_str(c._id) : c \in Range(conversation)},
                                             {"u1"}, {"hi"})
                      \cup SendMessageBodies(ConversationIdStrings, {"u3"}, {"hi"}) :
           FreeSlot(r) /\ send_message_lookup(r, body)
    \/ \E r \in Requests : send_message_insert(r, MaxMsgs)
    \/ \E r \in Requests : send_message_update(r, 1)
    \/ \E r \in Requests : reply(r)

SpecRace == Init /\ [][NextRace]_vars

(***************************************************************************)
(* Properties of POST /conversations.                                      *)
(***************************************************************************)
\* the step handles a POST /conversations whose body passed the schema
StartStep == req'.op = "start_conversation" /\ StartConversation_validate(req'.body)

\* the conversations that contain both users
ConversationsOf(a, b) ==
    {i \in DOMAIN conversation : {a, b} \subseteq Range(conversation[i].participant_ids)}

\* C1: a Start Conversation call for two distinct users, in either order,
\* that comes after a first call for the pair returns the id the first
\* call returned and inserts no conversation.
C1_StartIsIdempotent ==
    [][(/\ StartStep
        /\ req'.body.user_a # req'.body.user_b
        /\ first_started[{req'.body.user_a, req'.body.user_b}] # "")
       => (/\ resp'.status = 200
           /\ resp'.body.id = first_started[{req'.body.user_a, req'.body.user_b}]
           /\ conversation' = conversation)]_vars

\* a call (a, b) answered with the conversation an earlier call (b, a) created
C1_Witness ==
    /\ req.op = "start_conversation"
    /\ StartConversation_validate(req.body)
    /\ req.body.user_a # req.body.user_b
    /\ resp.status = 200
    /\ resp.body.id = first_started[{req.body.user_a, req.body.user_b}]
    /\ \E c \in Range(conversation) :
          /\ str(c._id) = resp.body.id
          /\ c.participant_ids = <<req.body.user_b, req.body.user_a>>

\* C2: for any two distinct users at most one stored conversation has both
\* in its participant_ids.
C2_AtMostOneConversationPerPair ==
    \A a, b \in UserIds : a # b => Cardinality(ConversationsOf(a, b)) <= 1

\* two conversations are stored and a further call for the pair of the
\* older one, in the other order, was answered with it
C2_Witness ==
    /\ Len(conversation) >= 2
    /\ req.op = "start_conversation"
    /\ StartConversation_validate(req.body)
    /\ resp.status = 200
    /\ resp.body.id = str(conversation[1]._id)
    /\ conversation[1].participant_ids = <<req.body.user_b, req.body.user_a>>
    /\ req.body.user_a # req.body.user_b

\* C3: Start Conversation with user_a = user_b fails with status 400 and
\* leaves the three collections as they were.
C3_SelfConversationRejected ==
    [][(StartStep /\ req'.body.user_a = req'.body.user_b)
       => (/\ resp'.status = 400
           /\ resp'.detail = "Cannot start conversation with self"
           /\ store' = store)]_vars

\* a self-conversation refused while the user already has a conversation
C3_Witness ==
    /\ req.op = "start_conversation"
    /\ StartConversation_validate(req.body)
    /\ req.body.user_a = req.body.user_b
    /\ resp.status = 400
    /\ \E c \in Range(conversation) : req.body.user_a \in Range(c.participant_ids)

(***************************************************************************)
(* Properties of POST /messages.                                           *)
(***************************************************************************)
\* the step handles a POST /messages whose body passed the schema
SendStep == req'.op = "send_message" /\ SendMessage_validate(req'.body)

\* the positions of the stored conversations conversation_id denotes
ConversationsWithId(conversation_id) ==
    {i \in DOMAIN conversation :
        /\ ObjectId(conversation_id) # <<>>
        /\ conversation[i]._id = ObjectId(conversation_id)[1]}

\* C4: Send Message fails with status 404 whenever no stored conversation
\* has the given conversation_id, a malformed conversation_id included, and
\* then inserts no message and modifies no conversation.
C4_UnknownConversationIs404 ==
    [][(SendStep /\ ConversationsWithId(req'.body.conversation_id) = {})
       => (/\ resp'.status = 404
           /\ message' = message
           /\ conversation' = conversation)]_vars

\* C5: Send Message on an existing conversation by a sender that is not one
\* of its participant_ids fails with status 403, inserts no message and
\* leaves the conversations as they were.
C5_OutsiderIsForbidden ==
    [][(/\ SendStep
        /\ \E i \in ConversationsWithId(req'.body.conversation_id) :
              req'.body.sender_id \notin Range(conversation[i].participant_ids))
       => (/\ resp'.status = 403
           /\ message' = message
           /\ conversation' = conversation)]_vars

\* an outsider refused on a conversation that already has a message
C5_Witness ==
    /\ req.op = "send_message"
    /\ SendMessage_validate(req.body)
    /\ resp.status = 403
    /\ \E i \in ConversationsWithId(req.body.conversation_id) :
          /\ req.body.sender_id \notin Range(conversation[i].participant_ids)
          /\ conversation[i].last_message_preview # <<>>

\* C8: after a Send Message call succeeds, the conversation it addressed
\* has last_message_preview equal to the text sent and an updated_at that
\* is not older than the one it had (none counting as oldest).
C8_PreviewFollowsSend ==
    [][(SendStep /\ resp'.status = 200)
       => \E i \in ConversationsWithId(req'.body.conversation_id) :
             /\ conversation'[i]._id = conversation[i]._id
             /\ conversation'[i].last_message_preview = <<req'.body.text>>
             /\ "updated_at" \in DOMAIN conversation'[i]
             /\ ("updated_at" \in DOMAIN conversation[i]
                    => conversation'[i].updated_at >= conversation[i].updated_at)]_vars

\* a second message with another text sent to the conversation of the first
C8_Witness ==
    /\ req.op = "send_message"
    /\ SendMessage_validate(req.body)
    /\ resp.status = 200
    /\ Len(message) = 2
    /\ message[1].text # message[2].text
    /\ message[2].text = req.body.text
    /\ \E i \in ConversationsWithId(req.body.conversation_id) :
          /\ conversation[i].last_message_preview = <<req.body.text>>
          /\ conversation[i].updated_at = utcnow
    /\ ObjectId(message[1].conversation_id) = ObjectId(message[2].conversation_id)

\* C11: every message Send Message inserts has delivered = true and
\* read = false, and no step changes or removes a stored message, so every
\* stored message has delivered = true and read = false.
C11_FlagsAtCreation ==
    [][/\ Len(message') >= Len(message)
       /\ \A i \in 1..Len(message) : message'[i] = message[i]
       /\ \A i \in 1..Len(message') : message'[i].delivered /\ ~message'[i].read]_vars

\* a second message stored and returned with the two flags, the first one
\* as it was
C11_Witness ==
    /\ req.op = "send_message"
    /\ resp.status = 200
    /\ Len(message) = 2
    /\ resp.body.id = str(message[2]._id)
    /\ resp.body.delivered /\ ~resp.body.read
    /\ message[1].delivered /\ ~message[1].read

\* C10: every stored message has a text of 1 to 4000 characters and every
\* stored user a username of 2 to 24 characters, requests outside these
\* lengths being rejected before the handler runs.
C10_LengthsEnforced ==
    /\ \A m \in Range(message) : Len(m.text) \in TextMinLength..TextMaxLength
    /\ \A u \in Range(chatuser) : Len(u.username) \in UsernameMinLength..UsernameMaxLength

(***************************************************************************)
(* Properties of GET /conversations/{user_id}.                             *)
(***************************************************************************)
\* the stored conversation with the id of a returned document
StoredConversation(id) == CHOOSE c \in Range(conversation) : str(c._id) = id

\* C9: List Conversations returns exactly the stored conversations whose
\* participant_ids contains user_id, each once, by updated_at descending,
\* those without updated_at after all those that have one.
C9_InboxOrder ==
    req.op = "get_conversations" =>
        LET mine == {c \in Range(conversation) : req.user_id \in Range(c.participant_ids)}
            got == resp.body
        IN /\ resp.status = 200
           /\ Len(got) = Cardinality(mine)
           /\ {got[i] : i \in 1..Len(got)} = {to_str_id(c) : c \in mine}
           /\ \A i, j \in 1..Len(got) :
                 i < j =>
                    LET ci == StoredConversation(got[i].id)
                        cj == StoredConversation(got[j].id)
                    IN IF "updated_at" \in DOMAIN cj
                       THEN /\ "updated_at" \in DOMAIN ci
                            /\ ci.updated_at >= cj.updated_at
                       ELSE TRUE

\* the conversation stored first has no message, the one stored second has,
\* and the second is listed first
C9_Witness ==
    /\ req.op = "get_conversations"
    /\ Len(conversation) = 2
    /\ Len(resp.body) = 2
    /\ "updated_at" \notin DOMAIN conversation[1]
    /\ "updated_at" \in DOMAIN conversation[2]
    /\ resp.body[1].id = str(conversation[2]._id)
    /\ resp.body[2].id = str(conversation[1]._id)

(***************************************************************************)
(* Properties of GET /messages/{conversation_id}.                          *)
(***************************************************************************)
Min(a, b) == IF a <= b THEN a ELSE b

\* the messages of a conversation that are older than the cursor
OlderMessages(conversation_id, before) ==
    {m \in Range(message) :
        /\ m.conversation_id = conversation_id
        /\ (before # <<>> => m._id < ObjectId(before[1])[1])}

\* C6: for a limit of at least 1 and a well-formed before cursor or none,
\* List Messages returns the min(limit, n) messages with the greatest ids
\* among the n messages of the conversation that are older than the cursor,
\* in ascending id order.
C6_PageIsLatestAscending ==
    (/\ req.op = "list_messages"
     /\ req.limit >= 1
     /\ (req.before = <<>> \/ ObjectIdIsValid(req.before[1])))
    => LET older == OlderMessages(req.conversation_id, req.before)
           page == resp.body
       IN /\ resp.status = 200
          /\ Len(page) = Min(req.limit, Cardinality(older))
          /\ \A i \in 1..Len(page) : \E m \in older : page[i] = to_str_id(m)
          /\ \A i, j \in 1..Len(page) :
                i < j => ObjectId(page[i].id)[1] < ObjectId(page[j].id)[1]
          /\ \A m \in older :
                (\A i \in 1..Len(page) : page[i].id # str(m._id))
                    => \A i \in 1..Len(page) : m._id < ObjectId(page[i].id)[1]

\* three messages in one conversation, limit 1 and the newest as cursor: the
\* page is the second message
C6_Witness ==
    /\ req.op = "list_messages"
    /\ Len(message) = 3
    /\ \A i \in 1..3 : message[i].conversation_id = req.conversation_id
    /\ req.limit = 1
    /\ req.before = <<str(message[3]._id)>>
    /\ resp.body = <<to_str_id(message[2])>>

\* C7: List Messages with a before value that does not decode does not
\* fail and returns what the same call without before returns.
C7_BadCursorIgnored ==
    (/\ req.op = "list_messages"
     /\ req.before # <<>>
     /\ ~ObjectIdIsValid(req.before[1]))
    => /\ resp.status = 200
       /\ resp.body = list_messages_result(req.conversation_id, req.limit, <<>>)

\* a malformed cursor answered with the latest page of a longer conversation
C7_Witness ==
    /\ req.op = "list_messages"
    /\ req.before = <<NotAnId>>
    /\ req.limit = 2
    /\ Len(message) = 3
    /\ \A i \in 1..3 : message[i].conversation_id = req.conversation_id
    /\ resp.body = <<to_str_id(message[2]), to_str_id(message[3])>>

(***************************************************************************)
(* Properties of requests handled at the same time.                        *)
(***************************************************************************)
\* the step in which request r, having looked up, inserts or returns
StartInsertStep(r) ==
    /\ inflight[r].pc = "start_looked_up"
    /\ inflight'[r].pc = "done"

\* C12: a Start Conversation request whose lookup found nothing inserts a
\* conversation of its two users and returns its new id, whatever has been
\* inserted since the lookup; so two requests for one pair that both looked
\* up before either inserted leave two conversations of the pair and return
\* different ids.
C12_InsertIgnoresLaterInserts ==
    [][\A r \in Requests :
          (StartInsertStep(r) /\ inflight[r].existing = <<>>)
          => /\ Len(conversation') = Len(conversation) + 1
             /\ SubSeq(conversation', 1, Len(conversation)) = conversation
             /\ conversation'[Len(conversation')].participant_ids
                    = <<inflight[r].body.user_a, inflight[r].body.user_b>>
             /\ inflight'[r].resp.status = 200
             /\ inflight'[r].resp.body.id = str(conversation'[Len(conversation')]._id)
             /\ \A c \in Range(conversation) : str(c._id) # inflight'[r].resp.body.id]_vars

\* both requests, for (u1, u2) and (u2, u1), have inserted: two conversations
\* contain both users and the two responses carry different ids
C12_Witness ==
    /\ \A r \in Requests :
          /\ inflight[r].pc = "done"
          /\ inflight[r].op = "start_conversation"
          /\ inflight[r].resp.status = 200
    /\ inflight["r1"].body.user_a = inflight["r2"].body.user_b
    /\ inflight["r1"].body.user_b = inflight["r2"].body.user_a
    /\ inflight["r1"].body.user_a # inflight["r1"].body.user_b
    /\ inflight["r1"].resp.body.id # inflight["r2"].resp.body.id
    /\ Cardinality(ConversationsOf(inflight["r1"].body.user_a,
                                   inflight["r1"].body.user_b)) = 2
    /\ \A r \in Requests :
          \E i \in ConversationsOf(inflight["r1"].body.user_a, inflight["r1"].body.user_b) :
              str(conversation[i]._id) = inflight[r].resp.body.id

\* the step in which request r, having inserted its message, updates the
\* conversation and returns
SendUpdateStep(r) ==
    /\ inflight[r].pc = "send_inserted"
    /\ inflight'[r].pc = "done"

\* the messages of the conversation with the id string id
MessagesOf(id) == {m \in Range(message) : m.conversation_id = id}

\* the message of the conversation that has the greatest id
LatestMessage(id) == CHOOSE m \in MessagesOf(id) : \A n \in MessagesOf(id) : n._id <= m._id

\* C13: the update of a Send Message request writes the text of that
\* request into last_message_preview, whatever messages have been inserted
\* into the conversation since the request inserted its own; so two requests
\* whose inserts and updates interleave can both complete with a preview
\* that is not the text of the message with the greatest id.
C13_UpdateWritesOwnText ==
    [][\A r \in Requests :
          SendUpdateStep(r)
          => /\ message' = message
             /\ \E i \in DOMAIN conversation :
                   /\ conversation[i]._id = inflight[r].conv._id
                   /\ conversation'[i].last_message_preview = <<inflight[r].body.text>>
                   /\ conversation'[i].updated_at = utcnow']_vars

\* both requests to one conversation have completed, and the preview is the
\* text of the message inserted first, not of the one with the greatest id
C13_Witness ==
    /\ \A r \in Requests :
          /\ inflight[r].pc = "done"
          /\ inflight[r].op = "send_message"
          /\ inflight[r].resp.status = 200
    /\ inflight["r1"].body.conversation_id = inflight["r2"].body.conversation_id
    /\ inflight["r1"].resp.body.id # inflight["r2"].resp.body.id
    /\ \E c \in Range(conversation) :
          /\ str(c._id) = inflight["r1"].body.conversation_id
          /\ Cardinality(MessagesOf(str(c._id))) = 2
          /\ c.last_message_preview # <<LatestMessage(str(c._id)).text>>
          /\ \E m \in MessagesOf(str(c._id)) : c.last_message_preview = <<m.text>>

(***************************************************************************)
(* Properties of the stored conversations and messages.                    *)
(***************************************************************************)
\* C14: with requests handled one at a time, a conversation that has
\* messages has the text of its message with the greatest id as
\* last_message_preview and has updated_at, and a conversation without
\* messages has no preview and no updated_at; the messages of a conversation
\* being those whose conversation_id equals its id.
C14_PreviewIsLatestText ==
    \A c \in Range(conversation) :
        IF MessagesOf(str(c._id)) # {}
        THEN /\ c.last_message_preview = <<LatestMessage(str(c._id)).text>>
             /\ "updated_at" \in DOMAIN c
        ELSE /\ c.last_message_preview = <<>>
             /\ "updated_at" \notin DOMAIN c

\* C15: under every interleaving of requests, the conversation_id of every
\* stored message decodes to the ObjectId of a stored conversation, and the
\* sender_id of the message is one of the participant_ids of that
\* conversation.
C15_MessagesHaveConversationAndMember ==
    \A m \in Range(message) :
        \E c \in Range(conversation) :
            /\ ObjectId(m.conversation_id) = <<c._id>>
            /\ m.sender_id \in Range(c.participant_ids)

\* a message is stored whose request was checked while another request was
\* between its insert and its update, and an outsider has been refused
C15_Witness ==
    /\ Len(message) = 2
    /\ inflight["r1"].pc = "send_inserted"
    /\ inflight["r2"].pc = "done"
    /\ inflight["r2"].op = "send_message"
    /\ inflight["r2"].resp.status = 403
    /\ \E c \in Range(conversation) :
          /\ ObjectId(inflight["r2"].body.conversation_id) = <<c._id>>
          /\ inflight["r2"].body.sender_id \notin Range(c.participant_ids)
          /\ \A m \in Range(message) : ObjectId(m.conversation_id) = <<c._id>>

\* the fields of a conversation that Send Message writes
WrittenBySend == {"last_message_preview", "updated_at"}

\* C16: every stored conversation has exactly two distinct participant_ids;
\* no step removes a conversation or changes its id or its participant_ids;
\* a conversation changes only in a successful Send Message step that
\* addresses it, and only in last_message_preview and updated_at.
C16_ConversationFrame ==
    [][/\ Len(conversation') >= Len(conversation)
       /\ \A c \in Range(conversation') :
             /\ Len(c.participant_ids) = 2
             /\ c.participant_ids[1] # c.participant_ids[2]
       /\ \A i \in DOMAIN conversation :
             /\ \A k \in DOMAIN conversation[i] \ WrittenBySend :
                   /\ k \in DOMAIN conversation'[i]
                   /\ conversation'[i][k] = conversation[i][k]
             /\ DOMAIN conversation'[i] \subseteq DOMAIN conversation[i] \cup WrittenBySend
             /\ conversation'[i] # conversation[i]
                   => /\ SendStep
                      /\ resp'.status = 200
                      /\ i \in ConversationsWithId(req'.body.conversation_id)]_vars

\* a message sent to one of two conversations that both had a message: the
\* other keeps the preview and the time of its own message
C16_Witness ==
    /\ req.op = "send_message"
    /\ SendMessage_validate(req.body)
    /\ resp.status = 200
    /\ Len(conversation) = 2
    /\ \E i \in ConversationsWithId(req.body.conversation_id) :
          /\ conversation[i].updated_at = utcnow
          /\ \E j \in DOMAIN conversation :
                /\ j # i
                /\ conversation[j].last_message_preview # <<>>
                /\ "updated_at" \in DOMAIN conversation[j]
                /\ conversation[j].updated_at < utcnow
                /\ conversation[j].participant_ids # conversation[i].participant_ids

(***************************************************************************)
(* Properties of paging.                                                   *)
(***************************************************************************)
\* C17: a caller that pages backwards with a fixed limit of at least 1, the
\* cursor being the id of the first message of the page before, gets an
\* empty page after at most one call per message plus one; it has then
\* received the messages the conversation held at its first call, each once
\* and no other, whatever was sent in between.
C17_PagingIsExhaustive ==
    /\ [](pager.phase # "idle"
            => /\ pager.calls <= Cardinality(pager.snapshot) + 1
               /\ \A i, j \in 1..Len(pager.got) : i # j => pager.got[i] # pager.got[j]
               /\ Range(pager.got) \subseteq pager.snapshot
               /\ (pager.phase = "finished" => Range(pager.got) = pager.snapshot))
    /\ (pager.phase = "paging" ~> pager.phase = "finished")

\* three pages of one message and an empty one, the third message sent
\* after the first page: the caller holds the two messages of its first call
C17_Witness ==
    /\ pager.phase = "finished"
    /\ pager.limit = 1
    /\ pager.calls = 3
    /\ Len(pager.got) = 2
    /\ Cardinality(MessagesOf(pager.conversation_id)) = 3
    /\ \E m \in MessagesOf(pager.conversation_id) : str(m._id) \notin pager.snapshot

\* C18: for every limit of 0 or more, List Messages returns at most limit
\* messages, so none for a limit of 0.
C18_LimitBoundsPage ==
    (req.op = "list_messages" /\ req.limit >= 0)
    => /\ resp.status = 200
       /\ Len(resp.body) <= req.limit

====
